---- MODULE Spec2Model ----
(***************************************************************************)
(* CampusSetu: retrieval-augmented question answering.                     *)
(*                                                                         *)
(* The model follows the Python sources: the embedder (ingestion.py), the  *)
(* document store and similarity search (db.py), the answer composer       *)
(* (agent.py), the query pipeline (main.py) and the three ingestion call   *)
(* sites (ingestion.py, api.py, app.py).                                   *)
(*                                                                         *)
(* Texts (chunk contents, queries) are natural numbers; the embedding of   *)
(* text t is the integer vector <<t, 1>>, so distinct texts have distinct  *)
(* directions and cosine similarities can be compared exactly.             *)
(***************************************************************************)
EXTENDS Integers, Sequences, FiniteSets, TLC

VARIABLES store, ing, qry, emb, search, compose, date, chunking

vars == <<store, ing, qry, emb, search, compose, date, chunking>>

----------------------------------------------------------------------------
(* Bounds                                                                  *)

MaxEmbedLen == 201
MaxText == 2
MaxChunks == 2
MaxIngestions == 2
MaxRows == 3
MaxSearchText == 2
MaxTopK == 2
MaxContext == 2
MaxPages == 2
MaxAnswerRows == 9

----------------------------------------------------------------------------
(* Python values: None or a list.  `not x` is true of None and of [].      *)

None == [isNone |-> TRUE, list |-> <<>>]

List(s) == [isNone |-> FALSE, list |-> s]

Falsy(x) == x.isNone \/ x.list = <<>>

Min(a, b) == IF a <= b THEN a ELSE b

----------------------------------------------------------------------------
(* Embedder: ingestion.py get_embeddings                                   *)

\* batch size of one embed_content request
BATCH == 100

\* the embedding service's vector for one text
embed_content(t) == <<t, 1>>

\* what one embed_content call can do: return one vector per input, raise,
\* return all but the last vector, or return no vector at all
Replies == {"ok", "fail", "short", "empty"}

ReplyLen(reply, n) ==
    CASE reply = "ok" -> n
      [] reply = "short" -> n - 1
      [] OTHER -> 0

NumBatches(n) == (n + BATCH - 1) \div BATCH

\* a slice that takes the element at the end index too
Batch_inclusive(chunks, i) == SubSeq(chunks, i, Min(i + BATCH, Len(chunks)))

\* batch = chunks[i:i + 100], i being 1-based here
Batch(chunks, i) == SubSeq(chunks, i, Min(i + BATCH - 1, Len(chunks)))

\* the loop `for i in range(0, len(chunks), 100)`; i is the 1-based start of
\* the batch, calls the batches sent to the service so far
RECURSIVE embed_loop(_, _, _, _, _)
embed_loop(chunks, svc, i, embeddings, calls) ==
    IF i > Len(chunks)
    THEN [ret |-> List(embeddings), calls |-> calls]
    ELSE LET batch == Batch(chunks, i)
             reply == svc[Len(calls) + 1]
             values == [k \in 1..ReplyLen(reply, Len(batch)) |-> embed_content(batch[k])]
         IN  IF reply = "fail"
             THEN [ret |-> None, calls |-> Append(calls, batch)]
             ELSE embed_loop(chunks, svc, i + BATCH, embeddings \o values,
                             Append(calls, batch))

\* a get_embeddings that returns what it has when a batch fails
RECURSIVE embed_loop_partial(_, _, _, _, _)
embed_loop_partial(chunks, svc, i, embeddings, calls) ==
    IF i > Len(chunks)
    THEN [ret |-> List(embeddings), calls |-> calls]
    ELSE LET batch == Batch(chunks, i)
             reply == svc[Len(calls) + 1]
             values == [k \in 1..ReplyLen(reply, Len(batch)) |-> embed_content(batch[k])]
         IN  IF reply = "fail"
             THEN [ret |-> List(embeddings), calls |-> Append(calls, batch)]
             ELSE embed_loop_partial(chunks, svc, i + BATCH, embeddings \o values,
                                     Append(calls, batch))

get_embeddings_partial(chunks, svc) == embed_loop_partial(chunks, svc, 1, <<>>, <<>>)

\* svc[b] is the service's reply to the b-th request
get_embeddings(chunks, svc) == embed_loop(chunks, svc, 1, <<>>, <<>>)

Services(n) == [1..NumBatches(n) -> Replies]

----------------------------------------------------------------------------
(* Document store: db.py                                                   *)

\* Python None in a string-typed slot (a filter, a date)
NoneStr == "<None>"

\* truthiness of an Optional[str]
Truthy(s) == s # NoneStr /\ s # ""

\* what the storage engine can do during one call: work, fail to open the
\* connection (get_db_connection or connection.cursor() raises before
\* `cursor` is bound), or fail in execute/commit
DbOutcomes == {"ok", "connect", "execute"}

MakeRow(content, embedding, doc_name, branch, year, valid_from, valid_to, doc_id) ==
    [content |-> content, embedding |-> embedding, doc_name |-> doc_name,
     branch |-> branch, year |-> year, valid_from |-> valid_from,
     valid_to |-> valid_to, doc_id |-> doc_id]

\* insert(): the row is committed only when execute and commit succeed.  A
\* failure in execute/commit is caught and logged and cursor.close() runs.  A
\* failure before `cursor` is bound is caught and logged too, but then the
\* finally block's cursor.close() raises UnboundLocalError out of insert().
\* opened and closed count the connections get_db_connection() returned and
\* those on which connection.close() was called: the finally block closes the
\* cursor only.
insert(rows, content, embedding, doc_name, branch, year, valid_from, valid_to, db) ==
    CASE db = "ok" ->
           [store |-> Append(rows, MakeRow(content, embedding, doc_name, branch, year,
                                           valid_from, valid_to, Len(rows) + 1)),
            committed |-> TRUE, logged |-> FALSE, raised |-> FALSE,
            opened |-> 1, closed |-> 0]
      [] db = "execute" ->
           [store |-> rows, committed |-> FALSE, logged |-> TRUE, raised |-> FALSE,
            opened |-> 1, closed |-> 0]
      [] OTHER ->
           [store |-> rows, committed |-> FALSE, logged |-> TRUE, raised |-> TRUE,
            opened |-> 0, closed |-> 0]

\* 1 - (embedding <=> q): the cosine dot/sqrt(n) kept as the pair (dot, n)
Dot(a, b) == a[1] * b[1] + a[2] * b[2]

similarity(q, v) == [dot |-> Dot(q, v), n |-> Dot(q, q) * Dot(v, v)]

\* a.dot/sqrt(a.n) >= b.dot/sqrt(b.n)
SimGE(a, b) ==
    CASE a.dot >= 0 /\ b.dot < 0 -> TRUE
      [] a.dot < 0 /\ b.dot >= 0 -> FALSE
      [] a.dot >= 0 /\ b.dot >= 0 -> a.dot * a.dot * b.n >= b.dot * b.dot * a.n
      [] OTHER -> a.dot * a.dot * b.n <= b.dot * b.dot * a.n

\* a branch condition without `OR branch = 'all'`
BranchCond_exact(row, branch) ==
    (Truthy(branch) /\ branch # "all") => row.branch = branch

\* the WHERE clause: a condition is added only for a truthy filter other
\* than "all"
BranchCond(row, branch) ==
    (Truthy(branch) /\ branch # "all") => (row.branch = branch \/ row.branch = "all")

YearCond(row, year) ==
    (Truthy(year) /\ year # "all") => (row.year = year \/ row.year = "all")

Candidates(rows, branch, year) ==
    {i \in DOMAIN rows : BranchCond(rows[i], branch) /\ YearCond(rows[i], year)}

\* the first m rows of every ordering of the candidates by similarity to q,
\* descending (DESC) or ascending; rows of equal similarity come in any order
RECURSIVE OrderBy(_, _, _, _, _)
OrderBy(rows, cands, q, m, desc) ==
    LET sim(i) == similarity(q, rows[i].embedding)
        Before(x, y) == IF desc THEN SimGE(sim(x), sim(y)) ELSE SimGE(sim(y), sim(x))
    IN  IF m = 0 \/ cands = {}
        THEN {<<>>}
        ELSE UNION {{<<c>> \o rest : rest \in OrderBy(rows, cands \ {c}, q, m - 1, desc)} :
                      c \in {x \in cands : \A y \in cands : Before(x, y)}}

\* ORDER BY similarity (ascending) LIMIT top_k
OrderByLimit_asc(rows, cands, q, top_k) == OrderBy(rows, cands, q, top_k, FALSE)

\* ORDER BY similarity DESC LIMIT top_k: every result the engine may produce
OrderByLimit(rows, cands, q, top_k) == OrderBy(rows, cands, q, top_k, TRUE)

Document(row, q) ==
    [content |-> row.content, doc_name |-> row.doc_name, branch |-> row.branch,
     year |-> row.year, valid_from |-> row.valid_from, valid_to |-> row.valid_to,
     similarity |-> similarity(q, row.embedding)]

\* fetch_similar_documents(): the set of things one call can do.  With the
\* connection failing, `return []` in the except block is overridden by the
\* UnboundLocalError of cursor.close() in the finally block.
fetch_similar_documents(query_embedding, top_k, branch, year, rows, db) ==
    IF query_embedding.isNone
    THEN {[raised |-> FALSE, docs |-> <<>>, opened |-> 0, closed |-> 0]}
    ELSE CASE db = "ok" ->
                {[raised |-> FALSE,
                  docs |-> [i \in DOMAIN s |-> Document(rows[s[i]], query_embedding.list)],
                  opened |-> 1, closed |-> 0] :
                    s \in OrderByLimit(rows, Candidates(rows, branch, year),
                                       query_embedding.list, top_k)}
           [] db = "execute" ->
                {[raised |-> FALSE, docs |-> <<>>, opened |-> 1, closed |-> 0]}
           [] OTHER -> {[raised |-> TRUE, docs |-> <<>>, opened |-> 0, closed |-> 0]}

----------------------------------------------------------------------------
(* Answer composer: agent.py                                               *)

ERROR_GEMINI == "Error fetching response from Gemini API."

\* what one generate_content call can do: raise, or answer with a text
GenOutcomes == {"fail", "I don't know", "The exam is on Monday."}

\* get_gemini_response(): the prompt is built from the context and the
\* question and the service is called whatever the context is; a failure of
\* the call is turned into the fixed error text
get_gemini_response(context, query, gen) ==
    [generate_calls |-> <<[context |-> context, query |-> query]>>,
     text |-> IF gen = "fail" THEN ERROR_GEMINI ELSE gen]

----------------------------------------------------------------------------
(* Query pipeline: main.py answer_query                                    *)

NO_CONTEXT == "No relevant context found in the database."

ERROR_QUERY == "Error processing your query."

\* top_k passed by answer_query to fetch_similar_documents
ANSWER_TOP_K == 7

\* get_embeddings([query])[0]: subscripting None or [] raises
QueryEmbedding(ret) ==
    IF Falsy(ret)
    THEN [raised |-> TRUE, value |-> None]
    ELSE [raised |-> FALSE, value |-> List(ret.list[1])]

\* the context handed to the composer
Context(similar_docs) ==
    [i \in DOMAIN similar_docs |->
       [content |-> similar_docs[i].content, doc_name |-> similar_docs[i].doc_name]]

\* an answer_query whose handler lets the exception out
answer_query_reraise == [raised |-> TRUE, answer |-> NoneStr]

\* `except Exception as e:` of answer_query: the error is logged and the
\* fixed text returned
answer_query_except == [raised |-> FALSE, answer |-> ERROR_QUERY]

----------------------------------------------------------------------------
(* Chunker: ingestion.py process_pdf.  The text of a page is modelled by   *)
(* its length in characters, a chunk by its length; a text longer than     *)
(* chunk_size is one without separators, cut character by character.       *)

CHUNK_SIZE == 1000

CHUNK_OVERLAP == 200

\* the window stays CHUNK_SIZE long and moves on by CHUNK_SIZE - CHUNK_OVERLAP
\* until the rest of the text fits
RECURSIVE merge_splits(_)
merge_splits(len) ==
    IF len <= CHUNK_SIZE
    THEN <<len>>
    ELSE <<CHUNK_SIZE>> \o merge_splits(len - (CHUNK_SIZE - CHUNK_OVERLAP))

\* split_text of one text: nothing for an empty text, the text itself when
\* it fits into one chunk
split_text(len) == IF len = 0 THEN <<>> ELSE merge_splits(len)

\* split_documents(pages): every page is split on its own and the chunks of
\* the pages follow one another
RECURSIVE split_documents(_)
split_documents(pages) ==
    IF pages = <<>> THEN <<>>
    ELSE split_text(Head(pages)) \o split_documents(Tail(pages))

\* process_pdf(file_name): None when the loader or the splitter raises, else
\* the chunks of the pages the loader returned
process_pdf(loads, pages) ==
    IF loads THEN List(split_documents(pages)) ELSE None

----------------------------------------------------------------------------
(* Date normalization: api.py upload_document.process_date.  A date string *)
(* is a sequence of one-character strings.                                 *)

\* Python None in a date slot
NoneDate == <<"<None>">>

Digits == <<"0", "1", "2", "3", "4", "5", "6", "7", "8", "9">>

IsDigit(c) == \E n \in DOMAIN Digits : Digits[n] = c

\* int(c) of a digit c
DigitVal(c) == (CHOOSE n \in DOMAIN Digits : Digits[n] = c) - 1

\* str.strip(): whitespace is removed at both ends
RECURSIVE lstrip(_)
lstrip(s) == IF s # <<>> /\ Head(s) = " " THEN lstrip(Tail(s)) ELSE s

RECURSIVE rstrip(_)
rstrip(s) ==
    IF s # <<>> /\ s[Len(s)] = " " THEN rstrip(SubSeq(s, 1, Len(s) - 1)) ELSE s

strip(s) == rstrip(lstrip(s))

\* str.lower() on the letters the inputs use
lower_char(c) ==
    CASE c = "N" -> "n" [] c = "U" -> "u" [] c = "L" -> "l" [] c = "O" -> "o"
      [] c = "E" -> "e" [] c = "S" -> "s" [] c = "T" -> "t" [] c = "R" -> "r"
      [] c = "I" -> "i" [] c = "G" -> "g" [] OTHER -> c

lower(s) == [i \in DOMAIN s |-> lower_char(s[i])]

\* the list ["", "null", "none", "string"]
NONE_TOKENS ==
    {<<>>, <<"n", "u", "l", "l">>, <<"n", "o", "n", "e">>,
     <<"s", "t", "r", "i", "n", "g">>}

\* s[i], or "" past the end of s
At(s, i) == IF i \in DOMAIN s THEN s[i] ELSE ""

\* %m is the pattern 1[0-2]|0[1-9]|[1-9]: the matches at position i, in the
\* order of the alternatives, each as [val, next]
MonthMatches(s, i) ==
    LET a == At(s, i)
        b == At(s, i + 1)
    IN  (IF a = "1" /\ b \in {"0", "1", "2"}
         THEN <<[val |-> 10 + DigitVal(b), next |-> i + 2]>> ELSE <<>>)
        \o (IF a = "0" /\ IsDigit(b) /\ b # "0"
            THEN <<[val |-> DigitVal(b), next |-> i + 2]>> ELSE <<>>)
        \o (IF IsDigit(a) /\ a # "0"
            THEN <<[val |-> DigitVal(a), next |-> i + 1]>> ELSE <<>>)

\* %d is the pattern 3[0-1]|[1-2]\d|0[1-9]|[1-9]| [1-9]
DayMatches(s, i) ==
    LET a == At(s, i)
        b == At(s, i + 1)
    IN  (IF a = "3" /\ b \in {"0", "1"}
         THEN <<[val |-> 30 + DigitVal(b), next |-> i + 2]>> ELSE <<>>)
        \o (IF a \in {"1", "2"} /\ IsDigit(b)
            THEN <<[val |-> 10 * DigitVal(a) + DigitVal(b), next |-> i + 2]>> ELSE <<>>)
        \o (IF a = "0" /\ IsDigit(b) /\ b # "0"
            THEN <<[val |-> DigitVal(b), next |-> i + 2]>> ELSE <<>>)
        \o (IF IsDigit(a) /\ a # "0"
            THEN <<[val |-> DigitVal(a), next |-> i + 1]>> ELSE <<>>)
        \o (IF a = " " /\ IsDigit(b) /\ b # "0"
            THEN <<[val |-> DigitVal(b), next |-> i + 2]>> ELSE <<>>)

\* re.match of (?P<Y>\d\d\d\d)-(?P<m>...)-(?P<d>...) at the start of s: the
\* first alternative of %m after which "-" and a %d follow, and the first
\* alternative of %d there; end is the position after the match
strptime_match(s) ==
    LET fail == [ok |-> FALSE, Y |-> 0, m |-> 0, d |-> 0, end |-> 0]
        ms == MonthMatches(s, 6)
        good == {k \in DOMAIN ms : At(s, ms[k].next) = "-"
                                   /\ DayMatches(s, ms[k].next + 1) # <<>>}
    IN  IF (\A i \in 1..4 : IsDigit(At(s, i))) /\ At(s, 5) = "-" /\ good # {}
        THEN LET mm == ms[CHOOSE k \in good : \A j \in good : k <= j]
                 dd == DayMatches(s, mm.next + 1)[1]
             IN  [ok |-> TRUE,
                  Y |-> 1000 * DigitVal(s[1]) + 100 * DigitVal(s[2])
                          + 10 * DigitVal(s[3]) + DigitVal(s[4]),
                  m |-> mm.val, d |-> dd.val, end |-> dd.next]
        ELSE fail

IsLeap(y) == y % 4 = 0 /\ (y % 100 # 0 \/ y % 400 = 0)

DaysInMonth(y, m) ==
    CASE m = 2 -> IF IsLeap(y) THEN 29 ELSE 28
      [] m \in {4, 6, 9, 11} -> 30
      [] OTHER -> 31

\* datetime.strptime(s, "%Y-%m-%d") raises ValueError: the pattern does not
\* match, unconverted data remains, or the fields are no date (year 0, a day
\* past the end of the month)
strptime_raises(s) ==
    LET f == strptime_match(s)
    IN  \/ ~f.ok
        \/ f.end # Len(s) + 1
        \/ f.Y < 1
        \/ f.d > DaysInMonth(f.Y, f.m)

\* process_date(date_str): None for a falsy, blank or placeholder string
\* and for one strptime rejects, else the string itself
process_date(date_str) ==
    IF \/ date_str = NoneDate
       \/ date_str = <<>>
       \/ strip(date_str) = <<>>
       \/ lower(date_str) \in NONE_TOKENS
    THEN NoneDate
    ELSE IF strptime_raises(date_str) THEN NoneDate ELSE date_str

----------------------------------------------------------------------------
(* Ingestion: add_document_to_db (ingestion.py), upload_document (api.py), *)
(* process_and_upload_document (app.py)                                    *)

IngestSites == {"add_document_to_db", "upload_document", "process_and_upload_document"}

Texts == 1..MaxText

DocNames == {"Time Table Odd 2025"}

RowBranches == {"all", "CSE"}

RowYears == {"all", "2025"}

\* the (branch, year) tags of an uploaded document
DocTags == {<<"all", "all">>, <<"CSE", "2025">>}

\* the validity window a caller passes: the form default "" of
\* /upload-document/, None from the other call sites
ValidityWindows == {<<NoneDate, NoneDate>>, <<<<>>, <<>>>>}

\* the window insert() receives: upload_document puts both ends through
\* process_date, the other call sites pass theirs on
ProcessedWindow(site, window) ==
    IF site = "upload_document"
    THEN <<process_date(window[1]), process_date(window[2])>>
    ELSE window

\* process_pdf(): None when loading or splitting raises, else the list of the
\* document's chunks, chunk k holding text k
ChunkerResults == {None} \cup {List([k \in 1..n |-> k]) : n \in 0..MaxChunks}

IdleIngestion ==
    [pc |-> "idle", site |-> "", doc_name |-> "", branch |-> "", year |-> "",
     valid_from |-> NoneDate, valid_to |-> NoneDate, chunks |-> None,
     embeddings |-> None, i |-> 0, chunker_calls |-> 0, embed_calls |-> 0,
     embed_failed |-> FALSE, no_vectors |-> FALSE, inserts |-> 0, committed |-> 0,
     logged |-> 0, opened |-> 0, closed |-> 0,
     before |-> 0, result |-> "", chunks_processed |-> -1, runs |-> 0]

\* Python None in the embedding slot of a row
NoVector == <<>>

\* a pairing that goes on to the end of the longer list, filling with None
Zip_longest(chunks, embeddings) ==
    [k \in 1..Len(chunks) |->
       <<chunks[k], IF k <= Len(embeddings) THEN embeddings[k] ELSE NoVector>>]

\* zip(chunks, embeddings): pairs up to the end of the shorter list
Zip(chunks, embeddings) ==
    [k \in 1..Min(Len(chunks), Len(embeddings)) |-> <<chunks[k], embeddings[k]>>]

\* the number of (chunk, vector) pairs of `zip(chunks, embeddings)`
Pairs(g) == Len(Zip(g.chunks.list, g.embeddings.list))

\* the count a finished ingestion reports: len(chunks) in the response of
\* upload_document and in the success box of the UI; add_document_to_db
\* reports none
ReportedChunks(site, chunks) ==
    IF site = "add_document_to_db" THEN -1 ELSE Len(chunks.list)

\* the file is saved and process_pdf runs; `if not chunks` ends the ingestion.
\* upload_document first rejects a file whose name does not end in .pdf.
IngestStart ==
    /\ ing.pc = "idle"
    /\ ing.runs < MaxIngestions
    /\ \E site \in IngestSites, doc_name \in DocNames, tags \in DocTags,
          window \in ValidityWindows, pdf \in BOOLEAN, chunks \in ChunkerResults :
         /\ (site # "upload_document") => pdf
         /\ (window[1] = NoneDate) = (site # "upload_document")
         /\ LET w == ProcessedWindow(site, window)
                g == [ing EXCEPT !.site = site, !.doc_name = doc_name, !.branch = tags[1],
                                 !.year = tags[2], !.valid_from = w[1],
                                 !.valid_to = w[2], !.before = Len(store),
                                 !.runs = @ + 1]
            IN  ing' = CASE ~pdf -> [g EXCEPT !.pc = "done", !.result = "bad_file"]
                         [] Falsy(chunks) ->
                              [g EXCEPT !.pc = "done", !.chunks = chunks,
                                        !.chunker_calls = 1, !.result = "no_chunks"]
                         [] OTHER ->
                              [g EXCEPT !.pc = "embed", !.chunks = chunks,
                                        !.chunker_calls = 1]
    /\ UNCHANGED <<store, qry, emb, search, compose, date, chunking>>

\* an ingestion that stores the chunks with placeholder vectors when the
\* embedder gives nothing
IngestEmbed_placeholder ==
    /\ ing.pc = "embed"
    /\ \E svc \in Services(Len(ing.chunks.list)) :
         LET r == get_embeddings(ing.chunks.list, svc)
             g == [ing EXCEPT !.embed_calls = Len(r.calls),
                              !.embed_failed = r.ret.isNone,
                              !.no_vectors = Falsy(r.ret), !.embeddings = r.ret]
         IN  ing' = IF Falsy(r.ret)
                    THEN [g EXCEPT !.pc = "insert",
                                   !.embeddings = List([k \in DOMAIN g.chunks.list |-> <<0, 0>>])]
                    ELSE [g EXCEPT !.pc = "insert"]
    /\ UNCHANGED <<store, qry, emb, search, compose, date, chunking>>

\* get_embeddings(chunks); `if not embeddings` ends the ingestion
IngestEmbed ==
    /\ ing.pc = "embed"
    /\ \E svc \in Services(Len(ing.chunks.list)) :
         LET r == get_embeddings(ing.chunks.list, svc)
             g == [ing EXCEPT !.embed_calls = Len(r.calls),
                              !.embed_failed = r.ret.isNone,
                              !.no_vectors = Falsy(r.ret), !.embeddings = r.ret]
         IN  ing' = IF Falsy(r.ret)
                    THEN [g EXCEPT !.pc = "done", !.result = "no_embeddings"]
                    ELSE [g EXCEPT !.pc = "insert"]
    /\ UNCHANGED <<store, qry, emb, search, compose, date, chunking>>

\* an insert loop run as one transaction: a failed insert takes the rows the
\* ingestion has committed so far with it
IngestInsert_atomic ==
    /\ ing.pc = "insert"
    /\ ing.i < Pairs(ing)
    /\ \E db \in DbOutcomes :
         LET k == ing.i + 1
             pair == Zip(ing.chunks.list, ing.embeddings.list)[k]
             r == insert(store, pair[1], pair[2], ing.doc_name,
                         ing.branch, ing.year, ing.valid_from, ing.valid_to, db)
             g == [ing EXCEPT !.i = k, !.inserts = @ + 1,
                              !.committed = @ + (IF r.committed THEN 1 ELSE 0),
                              !.logged = @ + (IF r.logged THEN 1 ELSE 0),
                              !.opened = @ + r.opened, !.closed = @ + r.closed]
         IN  /\ store' = IF r.committed THEN r.store ELSE SubSeq(store, 1, ing.before)
             /\ ing' = CASE r.raised -> [g EXCEPT !.pc = "done", !.result = "error"]
                         [] k = Pairs(ing) ->
                              [g EXCEPT !.pc = "done", !.result = "success",
                                        !.chunks_processed = ReportedChunks(g.site, g.chunks)]
                         [] OTHER -> g
    /\ UNCHANGED <<qry, emb, search, compose, date, chunking>>

\* one iteration of `for chunk, embedding in zip(chunks, embeddings)`; an
\* exception out of insert() leaves the loop (caught by the outer handler of
\* each call site), the last iteration is followed by the report
IngestInsert ==
    /\ ing.pc = "insert"
    /\ ing.i < Pairs(ing)
    /\ \E db \in DbOutcomes :
         LET k == ing.i + 1
             pair == Zip(ing.chunks.list, ing.embeddings.list)[k]
             r == insert(store, pair[1], pair[2], ing.doc_name,
                         ing.branch, ing.year, ing.valid_from, ing.valid_to, db)
             g == [ing EXCEPT !.i = k, !.inserts = @ + 1,
                              !.committed = @ + (IF r.committed THEN 1 ELSE 0),
                              !.logged = @ + (IF r.logged THEN 1 ELSE 0),
                              !.opened = @ + r.opened, !.closed = @ + r.closed]
         IN  /\ store' = r.store
             /\ ing' = CASE r.raised -> [g EXCEPT !.pc = "done", !.result = "error"]
                         [] k = Pairs(ing) ->
                              [g EXCEPT !.pc = "done", !.result = "success",
                                        !.chunks_processed = ReportedChunks(g.site, g.chunks)]
                         [] OTHER -> g
    /\ UNCHANGED <<qry, emb, search, compose, date, chunking>>

\* the call has returned; the next upload may start
IngestReturn ==
    /\ ing.pc = "done"
    /\ ing' = [IdleIngestion EXCEPT !.runs = ing.runs]
    /\ UNCHANGED <<store, qry, emb, search, compose, date, chunking>>

----------------------------------------------------------------------------
(* Query: answer_query step by step                                        *)

\* the callers of answer_query: a direct call with the function's arguments
\* (as at the end of main.py), the /query/ endpoint, the UI
QuerySites == {"answer_query", "query_documents", "get_answer"}

BranchFilters == {"all", "CSE", "ECE", "", NoneStr}

YearFilters == {"all", "2025", "2024"}

\* the (branch, year) filters of a query request
QueryFilters ==
    {<<"all", "all">>, <<"CSE", "2025">>, <<"ECE", "2024">>, <<NoneStr, NoneStr>>}

IdleQuery ==
    [pc |-> "idle", site |-> "", query |-> 0, branch |-> "all", year |-> "all",
     query_embedding |-> None, embed_calls |-> 0, embed_failed |-> FALSE,
     fetched |-> FALSE, fetch_raised |-> FALSE, similar_docs |-> <<>>,
     opened |-> 0, closed |-> 0,
     generate_calls |-> <<>>, gen |-> "", answer |-> NoneStr, raised |-> FALSE,
     handed |-> 0, context_used |-> -1, status |-> 0,
     query_branch |-> "all", query_year |-> "all", recorded |-> FALSE]

\* the filters the caller chose are query_branch and query_year; branch and
\* year are what answer_query receives: the caller's own values in a direct
\* call and from /query/, the defaults from the UI, whose get_answer calls
\* answer_query(query)
QueryStart ==
    /\ qry.pc = "idle"
    /\ \E site \in QuerySites, query \in Texts, filter \in QueryFilters :
         /\ (site = "get_answer") => Truthy(filter[1])
         /\ qry' = [qry EXCEPT !.pc = "embed", !.site = site, !.query = query,
                               !.query_branch = filter[1], !.query_year = filter[2],
                               !.branch = IF site = "get_answer" THEN "all" ELSE filter[1],
                               !.year = IF site = "get_answer" THEN "all" ELSE filter[2]]
    /\ UNCHANGED <<store, ing, emb, search, compose, date, chunking>>

\* Step 1: query_embedding = get_embeddings([query])[0]
QueryEmbed ==
    /\ qry.pc = "embed"
    /\ \E svc \in Services(1) :
         LET r == get_embeddings(<<qry.query>>, svc)
             e == QueryEmbedding(r.ret)
             q == [qry EXCEPT !.embed_calls = Len(r.calls), !.embed_failed = r.ret.isNone]
         IN  qry' = IF e.raised
                    THEN [q EXCEPT !.pc = "done", !.raised = answer_query_except.raised,
                                   !.answer = answer_query_except.answer]
                    ELSE [q EXCEPT !.pc = "fetch", !.query_embedding = e.value]
    /\ UNCHANGED <<store, ing, emb, search, compose, date, chunking>>

\* a Step 2 without the `if not similar_docs` test
QueryFetch_unguarded ==
    /\ qry.pc = "fetch"
    /\ \E db \in DbOutcomes :
         \E r \in fetch_similar_documents(qry.query_embedding, ANSWER_TOP_K, qry.branch,
                                          qry.year, store, db) :
           LET q == [qry EXCEPT !.fetched = TRUE, !.fetch_raised = r.raised,
                                !.similar_docs = r.docs,
                                !.opened = @ + r.opened, !.closed = @ + r.closed]
           IN  qry' = CASE r.raised ->
                             [q EXCEPT !.pc = "done", !.raised = answer_query_except.raised,
                                       !.answer = answer_query_except.answer]
                        [] OTHER -> [q EXCEPT !.pc = "compose"]
    /\ UNCHANGED <<store, ing, emb, search, compose, date, chunking>>

\* Step 2: fetch_similar_documents(query_embedding, top_k=7, branch, year) and
\* `if not similar_docs`
QueryFetch ==
    /\ qry.pc = "fetch"
    /\ \E db \in DbOutcomes :
         \E r \in fetch_similar_documents(qry.query_embedding, ANSWER_TOP_K, qry.branch,
                                          qry.year, store, db) :
           LET q == [qry EXCEPT !.fetched = TRUE, !.fetch_raised = r.raised,
                                !.similar_docs = r.docs,
                                !.opened = @ + r.opened, !.closed = @ + r.closed]
           IN  qry' = CASE r.raised ->
                             [q EXCEPT !.pc = "done", !.raised = answer_query_except.raised,
                                       !.answer = answer_query_except.answer]
                        [] r.docs = <<>> -> [q EXCEPT !.pc = "done", !.answer = NO_CONTEXT]
                        [] OTHER -> [q EXCEPT !.pc = "compose"]
    /\ UNCHANGED <<store, ing, emb, search, compose, date, chunking>>

\* Steps 3 and 4: the context is built and get_gemini_response called; its
\* text is returned
QueryCompose ==
    /\ qry.pc = "compose"
    /\ \E gen \in GenOutcomes :
         LET r == get_gemini_response(Context(qry.similar_docs), qry.query, gen)
         IN  qry' = [qry EXCEPT !.pc = "done", !.gen = gen,
                                !.generate_calls = @ \o r.generate_calls,
                                !.handed = Len(r.generate_calls[1].context),
                                !.answer = r.text]
    /\ UNCHANGED <<store, ing, emb, search, compose, date, chunking>>

\* the top_k of a /query/ request; 0, like None, is falsy
RequestTopKs == {0, 1, 7}

\* request.top_k or 5
TopKOrDefault(top_k) == IF top_k = 0 THEN 5 ELSE top_k

\* request.branch or "all"
FilterOrAll(f) == IF Truthy(f) THEN f ELSE "all"

\* query_documents after answer_query has returned: the query is embedded
\* again (once for the test, once for the value), the store searched again
\* with the request's top_k, and the length of that result is reported as
\* context_used.  An exception on the way makes the response a 500.  What is
\* kept of the request is its response: the answer, the count, the status
\* (handed, the number of chunks given to the generative model for the
\* answer, is kept beside them).
QueryCount ==
    /\ qry.pc = "done"
    /\ qry.site = "query_documents"
    /\ \E top_k \in RequestTopKs, svc1 \in Services(1), svc2 \in Services(1),
          db \in DbOutcomes :
         LET c1 == get_embeddings(<<qry.query>>, svc1)
             c2 == get_embeddings(<<qry.query>>, svc2)
             e == IF Falsy(c1.ret) THEN [raised |-> FALSE, value |-> None]
                  ELSE QueryEmbedding(c2.ret)
             q == [IdleQuery EXCEPT !.pc = "respond", !.site = qry.site,
                                    !.query = qry.query, !.branch = qry.branch,
                                    !.year = qry.year, !.answer = qry.answer,
                                    !.query_branch = qry.query_branch,
                                    !.query_year = qry.query_year,
                                    !.handed = qry.handed, !.opened = qry.opened,
                                    !.closed = qry.closed]
         IN  IF e.raised
             THEN qry' = [q EXCEPT !.status = 500]
             ELSE IF Falsy(e.value)
                  THEN qry' = [q EXCEPT !.status = 200, !.context_used = 0]
                  ELSE \E r \in fetch_similar_documents(e.value, TopKOrDefault(top_k),
                                                         FilterOrAll(qry.branch),
                                                         FilterOrAll(qry.year), store, db) :
                         qry' = [q EXCEPT !.opened = @ + r.opened,
                                          !.closed = @ + r.closed,
                                          !.status = IF r.raised THEN 500 ELSE 200,
                                          !.context_used =
                                              IF r.raised THEN -1 ELSE Len(r.docs)]
    /\ UNCHANGED <<store, ing, emb, search, compose, date, chunking>>

\* get_answer after answer_query has returned: an answer other than the "no
\* relevant context" text is shown and appended to the session's query
\* history with the branch and year chosen in the UI; otherwise a warning is
\* shown
QueryShow ==
    /\ qry.pc = "done"
    /\ qry.site = "get_answer"
    /\ qry' = [qry EXCEPT !.pc = "respond", !.recorded = (qry.answer # NO_CONTEXT)]
    /\ UNCHANGED <<store, ing, emb, search, compose, date, chunking>>

\* the request is over (answer_query has returned to its caller, /query/ has
\* responded, the UI has shown the answer); the next query may start
QueryReturn ==
    /\ \/ qry.pc = "done" /\ qry.site = "answer_query"
       \/ qry.pc = "respond"
    /\ qry' = IdleQuery
    /\ UNCHANGED <<store, ing, emb, search, compose, date, chunking>>

----------------------------------------------------------------------------
(* The system: uploads and queries run against the shared store            *)

NoEmbed == [called |-> FALSE, chunks |-> <<>>, svc |-> <<>>, ret |-> None, calls |-> <<>>]

NoSearch ==
    [called |-> FALSE, query_embedding |-> None, top_k |-> 0, branch |-> "all",
     year |-> "all", db |-> "", raised |-> FALSE, docs |-> <<>>,
     opened |-> 0, closed |-> 0]

NoCompose ==
    [called |-> FALSE, context |-> <<>>, query |-> 0, gen |-> "",
     generate_calls |-> <<>>, text |-> NoneStr]

NoDate == [called |-> FALSE, date_str |-> NoneDate, ret |-> NoneDate, raised |-> FALSE]

NoChunking == [called |-> FALSE, loads |-> TRUE, pages |-> <<>>, ret |-> None]

Init ==
    /\ store = <<>>
    /\ ing = IdleIngestion
    /\ qry = IdleQuery
    /\ emb = NoEmbed
    /\ search = NoSearch
    /\ compose = NoCompose
    /\ date = NoDate
    /\ chunking = NoChunking

\* one worker: an upload or a call of answer_query is taken up when no other
\* is being served
Next ==
    \/ (qry.pc = "idle" /\ IngestStart)
    \/ IngestEmbed
    \/ IngestInsert
    \/ IngestReturn
    \/ (ing.pc = "idle" /\ QueryStart /\ qry'.site = "answer_query")
    \/ QueryEmbed
    \/ QueryFetch
    \/ QueryCompose
    \/ QueryReturn

Spec == Init /\ [][Next]_vars

----------------------------------------------------------------------------
(* Specification of the embedder alone: inputs of up to three batches      *)

EmbedLens == {n \in 0..MaxEmbedLen : n % BATCH \in {0, 1, 2, 50, 99}}

InitEmbed ==
    /\ store = <<>>
    /\ ing = IdleIngestion
    /\ qry = IdleQuery
    /\ search = NoSearch
    /\ compose = NoCompose
    /\ date = NoDate
    /\ chunking = NoChunking
    /\ \E n \in EmbedLens : emb = [NoEmbed EXCEPT !.chunks = [i \in 1..n |-> i]]

CallGetEmbeddings ==
    /\ ~emb.called
    /\ \E svc \in Services(Len(emb.chunks)) :
         LET r == get_embeddings(emb.chunks, svc)
         IN  emb' = [emb EXCEPT !.called = TRUE, !.svc = svc,
                                !.ret = r.ret, !.calls = r.calls]
    /\ UNCHANGED <<store, ing, qry, search, compose, date, chunking>>

NextEmbed == CallGetEmbeddings

SpecEmbed == InitEmbed /\ [][NextEmbed]_vars

----------------------------------------------------------------------------
(* Specification of the similarity search alone: any store of up to        *)
(* MaxRows committed rows, any query vector, top_k and filters             *)

SearchTexts == 1..MaxSearchText

\* a rank of the kinds of row, used to list each table once: a SELECT sees the
\* table as a bag of rows, whatever the order of the inserts
Rank(row) ==
    4 * row.content + (IF row.branch = "all" THEN 0 ELSE 2)
                    + (IF row.year = "all" THEN 0 ELSE 1)

\* the tables of n rows that insert() can commit, rows in order of rank
RECURSIVE StoresOfLen(_)
StoresOfLen(n) ==
    IF n = 0 THEN {<<>>}
    ELSE LET longer == {insert(rows, t, embed_content(t), d, b, y, NoneDate, NoneDate,
                               "ok").store :
                          rows \in StoresOfLen(n - 1), t \in SearchTexts, d \in DocNames,
                          b \in RowBranches, y \in RowYears}
         IN  {rows \in longer : n > 1 => Rank(rows[n - 1]) <= Rank(rows[n])}

InitSearch ==
    /\ \E n \in 0..MaxRows : store \in StoresOfLen(n)
    /\ ing = IdleIngestion
    /\ qry = IdleQuery
    /\ emb = NoEmbed
    /\ search = NoSearch
    /\ compose = NoCompose
    /\ date = NoDate
    /\ chunking = NoChunking

CallFetchSimilarDocuments ==
    /\ ~search.called
    /\ \E q \in {None} \cup {List(embed_content(t)) : t \in SearchTexts},
          top_k \in 0..MaxTopK, branch \in BranchFilters, year \in YearFilters,
          db \in DbOutcomes :
         \E r \in fetch_similar_documents(q, top_k, branch, year, store, db) :
           search' = [called |-> TRUE, query_embedding |-> q, top_k |-> top_k,
                      branch |-> branch, year |-> year, db |-> db,
                      raised |-> r.raised, docs |-> r.docs,
                      opened |-> r.opened, closed |-> r.closed]
    /\ UNCHANGED <<store, ing, qry, emb, compose, date, chunking>>

NextSearch == CallFetchSimilarDocuments

SpecSearch == InitSearch /\ [][NextSearch]_vars

----------------------------------------------------------------------------
(* Specification of the answer composer alone: any context of up to        *)
(* MaxContext retrieved chunks, the empty one included                     *)

ContextDocs == {[content |-> t, doc_name |-> d] : t \in Texts, d \in {"tt", "syllabus"}}

RECURSIVE Contexts(_)
Contexts(n) ==
    IF n = 0 THEN {<<>>}
    ELSE LET shorter == Contexts(n - 1)
         IN  shorter \cup {Append(c, d) : c \in {x \in shorter : Len(x) = n - 1},
                                           d \in ContextDocs}

InitCompose ==
    /\ store = <<>>
    /\ ing = IdleIngestion
    /\ qry = IdleQuery
    /\ emb = NoEmbed
    /\ search = NoSearch
    /\ \E context \in Contexts(MaxContext), query \in Texts :
         compose = [NoCompose EXCEPT !.context = context, !.query = query]
    /\ date = NoDate
    /\ chunking = NoChunking

CallGetGeminiResponse ==
    /\ ~compose.called
    /\ \E gen \in GenOutcomes :
         LET r == get_gemini_response(compose.context, compose.query, gen)
         IN  compose' = [compose EXCEPT !.called = TRUE, !.gen = gen,
                                        !.generate_calls = r.generate_calls,
                                        !.text = r.text]
    /\ UNCHANGED <<store, ing, qry, emb, search, date, chunking>>

NextCompose == CallGetGeminiResponse

SpecCompose == InitCompose /\ [][NextCompose]_vars

----------------------------------------------------------------------------
(* Specification of the date normalization alone: placeholders, blanks and *)
(* year-month-day strings with good and bad fields                         *)

DateYears == {<<"2", "0", "2", "5">>, <<"2", "0", "2", "4">>, <<"0", "0", "0", "0">>,
              <<"2", "5">>}

DateMonths == {<<"0", "9">>, <<"9">>, <<"1", "3">>, <<"0", "2">>, <<"1", "2">>,
               <<"0", "0">>}

DateDays == {<<"0", "1">>, <<"1">>, <<"4", "0">>, <<"2", "9">>, <<"3", "0">>,
             <<"3", "1">>, <<" ", "1">>, <<"0", "0">>}

DateSeparators == {"-", "/"}

Padding == {<<>>, <<" ">>}

DateTokens ==
    {NoneDate, <<>>, <<" ">>, <<" ", " ">>,
     <<"n", "u", "l", "l">>, <<"N", "U", "L", "L">>, <<"N", "o", "n", "e">>,
     <<"n", "o", "n", "e">>, <<"s", "t", "r", "i", "n", "g">>,
     <<"S", "t", "r", "i", "n", "g">>, <<" ", "n", "u", "l", "l">>,
     <<"n", "i", "l">>}

DateInputs ==
    DateTokens \cup
    {pre \o y \o <<sep>> \o m \o <<sep>> \o d \o post :
       pre \in Padding, y \in DateYears, sep \in DateSeparators, m \in DateMonths,
       d \in DateDays, post \in Padding}

InitDate ==
    /\ store = <<>>
    /\ ing = IdleIngestion
    /\ qry = IdleQuery
    /\ emb = NoEmbed
    /\ search = NoSearch
    /\ compose = NoCompose
    /\ chunking = NoChunking
    /\ \E date_str \in DateInputs : date = [NoDate EXCEPT !.date_str = date_str]

CallProcessDate ==
    /\ ~date.called
    /\ date' = [date EXCEPT !.called = TRUE, !.ret = process_date(date.date_str)]
    /\ UNCHANGED <<store, ing, qry, emb, search, compose, chunking>>

NextDate == CallProcessDate

SpecDate == InitDate /\ [][NextDate]_vars

----------------------------------------------------------------------------
(* Specification of the chunker alone: documents of up to MaxPages pages   *)

PageLens == {0, 1, 300, 999, 1000, 1001, 1800, 1801, 2600}

RECURSIVE PagesOfLen(_)
PagesOfLen(n) ==
    IF n = 0 THEN {<<>>}
    ELSE {Append(pages, len) : pages \in PagesOfLen(n - 1), len \in PageLens}

InitChunking ==
    /\ store = <<>>
    /\ ing = IdleIngestion
    /\ qry = IdleQuery
    /\ emb = NoEmbed
    /\ search = NoSearch
    /\ compose = NoCompose
    /\ date = NoDate
    /\ \E n \in 0..MaxPages, loads \in BOOLEAN :
         \E pages \in PagesOfLen(n) :
           chunking = [NoChunking EXCEPT !.loads = loads, !.pages = pages]

CallProcessPdf ==
    /\ ~chunking.called
    /\ chunking' = [chunking EXCEPT !.called = TRUE,
                                    !.ret = process_pdf(chunking.loads, chunking.pages)]
    /\ UNCHANGED <<store, ing, qry, emb, search, compose, date>>

NextChunking == CallProcessPdf

SpecChunking == InitChunking /\ [][NextChunking]_vars

----------------------------------------------------------------------------
(* Specification of the queries alone, from all three callers: a store of  *)
(* up to MaxAnswerRows committed chunks, more than answer_query asks for   *)

\* the table after n inserts of one document's chunks, chunk k holding text k
RECURSIVE AnswerStore(_, _)
AnswerStore(n, tags) ==
    IF n = 0 THEN <<>>
    ELSE insert(AnswerStore(n - 1, tags), n, embed_content(n), "Time Table Odd 2025",
                tags[1], tags[2], NoneDate, NoneDate, "ok").store

InitAnswer ==
    /\ \E n \in 0..MaxAnswerRows, tags \in DocTags : store = AnswerStore(n, tags)
    /\ ing = IdleIngestion
    /\ qry = IdleQuery
    /\ emb = NoEmbed
    /\ search = NoSearch
    /\ compose = NoCompose
    /\ date = NoDate
    /\ chunking = NoChunking

NextAnswer ==
    \/ QueryStart
    \/ QueryEmbed
    \/ QueryFetch
    \/ QueryCompose
    \/ QueryCount
    \/ QueryShow
    \/ QueryReturn

SpecAnswer == InitAnswer /\ [][NextAnswer]_vars

----------------------------------------------------------------------------
(* Claims                                                                  *)

\* C1: during a multi-chunk ingestion a storage failure on one chunk, of any
\* kind, does not halt the loop: once the ingestion is over, insert() has
\* been attempted for every (chunk, vector) pair.
C1_EveryPairAttempted ==
    (ing.pc = "done" /\ ~Falsy(ing.chunks) /\ ~Falsy(ing.embeddings))
        => ing.inserts = Pairs(ing)

\* C2: the chunk count a finished ingestion reports equals the number of
\* chunks of the document that were committed to the store.
C2_ReportedEqualsCommitted ==
    (ing.pc = "done" /\ ing.result = "success" /\ ing.site = "upload_document")
        => ing.chunks_processed = ing.committed

\* C3: if embedding the query text fails, answer_query returns the "no
\* relevant context" sentinel: no other text and no exception.
C3_EmbedFailureGivesSentinel ==
    (qry.pc = "done" /\ qry.embed_failed)
        => (~qry.raised /\ qry.answer = NO_CONTEXT)

\* C4: get_gemini_response called with an empty context never invokes the
\* generative service and returns the "no relevant context" sentinel.
C4_EmptyContextNoGeneration ==
    (compose.called /\ compose.context = <<>>)
        => (compose.generate_calls = <<>> /\ compose.text = NO_CONTEXT)

\* the search reached the storage engine and the query ran
Searched == search.called /\ ~search.query_embedding.isNone /\ search.db = "ok"

\* the number of i in the domain of sequence s with P(s[i])
CountIn(s, P(_)) == Cardinality({i \in DOMAIN s : P(s[i])})

\* the rows of the store as the documents a search with vector q returns
StoreDocs(q) == [i \in DOMAIN store |-> Document(store[i], q)]

\* the filter condition as the specification words it
FilterAsSpecified(tag, filter) == filter = "all" \/ tag = filter \/ tag = "all"

\* the filter condition with an empty or None filter meaning no restriction
FilterAsAmended(tag, filter) ==
    filter \in {"all", "", NoneStr} \/ tag = filter \/ tag = "all"

\* what C5 says of a finished search, for a given reading of the filter:
\* every returned chunk is a stored chunk that passes the filter on branch
\* and on year, and when top_k is at least the number of stored chunks that
\* pass, each of them is returned
FilterClaim(F(_, _)) ==
    LET q == search.query_embedding.list
        all == StoreDocs(q)
        Pass(d) == F(d.branch, search.branch) /\ F(d.year, search.year)
        n == CountIn(all, Pass)
    IN  /\ \A j \in DOMAIN search.docs :
             /\ Pass(search.docs[j])
             /\ \E i \in DOMAIN all : all[i] = search.docs[j]
        /\ search.top_k >= n =>
             \A i \in DOMAIN all :
               Pass(all[i]) =>
                 LET Same(d) == d = all[i]
                 IN  CountIn(search.docs, Same) = CountIn(all, Same)

\* C5 as stated: a stored chunk is returned only if (filter = "all" or
\* chunk.branch = filter or chunk.branch = "all") and the same for year, and
\* every such chunk is returned when top_k allows.
C5_FilterAsSpecified == Searched => FilterClaim(FilterAsSpecified)

\* C5 as amended: the same with an empty or None filter counting as "all".
C5_FilterAsAmended == Searched => FilterClaim(FilterAsAmended)

\* C5 witness: a search with branch filter "ECE" over a store holding a "CSE"
\* chunk and an "all" chunk returned the second and left out the first.
C5_Witness ==
    /\ Searched
    /\ search.branch = "ECE"
    /\ search.year = "2025"
    /\ search.top_k >= Len(store)
    /\ \E i \in DOMAIN store : store[i].branch = "CSE"
    /\ \E j \in DOMAIN search.docs : search.docs[j].branch = "all"
    /\ Len(search.docs) < Len(store)

\* C6: a search that runs returns min(top_k, number of candidates) chunks in
\* order of non-increasing similarity, all of them candidates, and every
\* candidate more similar than the least similar returned chunk is returned.
C6_TopKBySimilarity ==
    Searched =>
      LET q == search.query_embedding.list
          docs == search.docs
          cands == Candidates(store, search.branch, search.year)
          all == StoreDocs(q)
          Higher(d) == ~SimGE(docs[Len(docs)].similarity, d.similarity)
      IN  /\ Len(docs) = Min(search.top_k, Cardinality(cands))
          /\ \A i, j \in DOMAIN docs :
               i < j => SimGE(docs[i].similarity, docs[j].similarity)
          /\ \A j \in DOMAIN docs :
               LET Same(d) == d = docs[j]
               IN  CountIn(docs, Same) <= Cardinality({i \in cands : all[i] = docs[j]})
          /\ docs # <<>> =>
               CountIn(docs, Higher) = Cardinality({i \in cands : Higher(all[i])})

\* C6 witness: three candidates, top_k = 2, and two chunks came back, the more
\* similar one first, one candidate being left out.
C6_Witness ==
    /\ Searched
    /\ search.top_k = 2
    /\ Len(store) = 3
    /\ Cardinality(Candidates(store, search.branch, search.year)) = 3
    /\ Len(search.docs) = 2
    /\ ~SimGE(search.docs[2].similarity, search.docs[1].similarity)

\* C7: get_embeddings is all-or-nothing: if any batch call fails the call
\* returns None, and no vector of an earlier batch with it.
C7_AllOrNothing ==
    (emb.called /\ \E b \in DOMAIN emb.svc : emb.svc[b] = "fail")
        => emb.ret = None

\* C7 witness: the first batch was embedded, a later batch failed, and the
\* call returned None.
C7_Witness ==
    /\ emb.called
    /\ Len(emb.calls) >= 2
    /\ emb.svc[1] = "ok"
    /\ emb.svc[Len(emb.calls)] = "fail"
    /\ emb.ret = None

\* C8: whenever get_embeddings succeeds its output has one vector per input
\* string, vector i being the embedding of input i, whatever the service
\* replies.
C8_OneVectorPerInput ==
    (emb.called /\ ~Falsy(emb.ret))
        => /\ Len(emb.ret.list) = Len(emb.chunks)
           /\ \A i \in DOMAIN emb.chunks :
                emb.ret.list[i] = embed_content(emb.chunks[i])

\* C9: answer_query never raises and always returns a text, whatever fails;
\* when the generative call fails the text is the fixed error string.
C9_AlwaysText ==
    qry.pc = "done" =>
      /\ ~qry.raised
      /\ qry.answer \in {NO_CONTEXT, ERROR_QUERY, ERROR_GEMINI} \cup (GenOutcomes \ {"fail"})
      /\ qry.gen = "fail" => qry.answer = ERROR_GEMINI
      /\ qry.fetch_raised => qry.answer = ERROR_QUERY

\* C9 witness: storage failed under a query (the connection could not be
\* opened) and answer_query returned its error text.
C9_Witness ==
    /\ qry.pc = "done"
    /\ qry.fetch_raised
    /\ ~qry.raised
    /\ qry.answer = ERROR_QUERY

\* C10: ingestion fails fast at every call site: after a chunker that failed
\* or gave no chunks the embedding service is not called and nothing is
\* stored; after an embedder that failed or gave no vectors insert() is not
\* called and the store is as it was.
C10_FailFast ==
    /\ (ing.chunker_calls = 1 /\ Falsy(ing.chunks))
         => (ing.embed_calls = 0 /\ ing.inserts = 0 /\ Len(store) = ing.before)
    /\ ing.no_vectors => (ing.inserts = 0 /\ Len(store) = ing.before)

\* C10 witness: an upload over a store that already holds chunks ended
\* because the embedder failed, with no insert and the store unchanged.
C10_Witness ==
    /\ ing.pc = "done"
    /\ ing.site = "upload_document"
    /\ ing.before > 0
    /\ ing.embed_failed
    /\ ing.no_vectors
    /\ ing.embed_calls = 1
    /\ ing.inserts = 0
    /\ Len(store) = ing.before

\* C11: every persisted chunk has a non-empty content (texts are numbered
\* from 1) and a non-null embedding vector, whatever the chunker, the
\* embedder and the storage engine did during the ingestions so far.
C11_RowsComplete ==
    \A i \in DOMAIN store :
      /\ store[i].content \in Texts
      /\ store[i].embedding # NoVector
      /\ Len(store[i].embedding) = Len(embed_content(store[i].content))

\* C11 witness: the embedder gave fewer vectors than chunks, one insert of
\* the ingestion failed in the storage engine, and the store holds a row.
C11_Witness ==
    /\ ing.pc = "done"
    /\ ing.result = "success"
    /\ Len(ing.embeddings.list) < Len(ing.chunks.list)
    /\ ing.logged >= 1
    /\ ing.before >= 1
    /\ Len(store) = ing.before

\* a string of the form YYYY-MM-DD (four, two and two digits) that names a
\* day of the calendar
IsCalendarDate(s) ==
    /\ Len(s) = 10
    /\ \A i \in {1, 2, 3, 4, 6, 7, 9, 10} : IsDigit(s[i])
    /\ s[5] = "-" /\ s[8] = "-"
    /\ LET y == 1000 * DigitVal(s[1]) + 100 * DigitVal(s[2]) + 10 * DigitVal(s[3])
                  + DigitVal(s[4])
           m == 10 * DigitVal(s[6]) + DigitVal(s[7])
           d == 10 * DigitVal(s[9]) + DigitVal(s[10])
       IN  y >= 1 /\ m \in 1..12 /\ d >= 1 /\ d <= DaysInMonth(y, m)

\* C12: process_date never raises; it returns None for None, the empty
\* string, a blank string, "null"/"none"/"string" in any letter case and any
\* string that is not a valid YYYY-MM-DD calendar date, and returns a valid
\* YYYY-MM-DD date string unchanged.
C12_DateNormalization ==
    date.called =>
      /\ ~date.raised
      /\ IF IsCalendarDate(date.date_str)
         THEN date.ret = date.date_str
         ELSE date.ret = NoneDate

\* the total length of the text of the pages
RECURSIVE TotalLen(_)
TotalLen(pages) == IF pages = <<>> THEN 0 ELSE Head(pages) + TotalLen(Tail(pages))

\* C13: when the text of the whole document is shorter than chunk_size (and
\* there is some text), process_pdf returns exactly one chunk, however many
\* pages hold the text.
C13_ShortTextOneChunk ==
    (chunking.called /\ chunking.loads /\ TotalLen(chunking.pages) \in 1..(CHUNK_SIZE - 1))
        => (~chunking.ret.isNone /\ Len(chunking.ret.list) = 1)

\* C14: every insert of an ingestion commits or fails on its own: a step
\* never removes or changes a committed row, an insert that fails leaves the
\* store as it was, and an insert that succeeds adds exactly the row of its
\* chunk.
C14_PerChunkCommit ==
    [][/\ Len(store') >= Len(store)
       /\ SubSeq(store', 1, Len(store)) = store
       /\ (ing'.logged > ing.logged) => store' = store
       /\ (ing'.committed > ing.committed) =>
            /\ Len(store') = Len(store) + 1
            /\ store'[Len(store')].content = ing.chunks.list[ing'.i]]_vars

\* C14 witness: an ingestion of two chunks stored chunk 1 and failed on chunk
\* 2; the row of chunk 1 is in the store and chunk 2 left no row.
C14_Witness ==
    /\ ing.pc = "done"
    /\ Pairs(ing) = 2
    /\ ing.inserts = 2
    /\ ing.committed = 1
    /\ ing.logged = 1
    /\ Len(store) = ing.before + 1
    /\ store[Len(store)].content = ing.chunks.list[1]

\* C15: every connection insert() or fetch_similar_documents() opened is
\* closed when the call is over, whether it returned or raised: between calls
\* no connection of an ingestion or of a query is open.
C15_ConnectionsClosed ==
    /\ ing.opened = ing.closed
    /\ qry.opened = qry.closed

\* n / k rounded up
CeilDiv(n, k) == (n + k - 1) \div k

\* the calls made are the first batches of the input: call b holds inputs
\* 100(b-1)+1 .. min(100b, n) in their order, so at most 100 of them, with no
\* gap and no repeat
BatchesInOrder ==
    \A b \in DOMAIN emb.calls :
      /\ Len(emb.calls[b]) \in 1..100
      /\ emb.calls[b] = [k \in 1..Len(emb.calls[b]) |-> emb.chunks[100 * (b - 1) + k]]
      /\ Len(emb.calls[b]) = Min(100, Len(emb.chunks) - 100 * (b - 1))

\* C16 as stated: for n inputs get_embeddings makes exactly ceil(n/100)
\* calls, each of at most 100 items, covering the inputs in order; for n = 0
\* it makes no call and returns the empty list.
C16_ExactlyCeilCalls ==
    emb.called =>
      /\ Len(emb.calls) = CeilDiv(Len(emb.chunks), 100)
      /\ BatchesInOrder
      /\ emb.chunks = <<>> => (emb.calls = <<>> /\ emb.ret = List(<<>>))

\* C16 as amended: the calls are the batches in order, up to and including
\* the first call that fails; all ceil(n/100) are made when none fails.
C16_BatchesUntilFailure ==
    emb.called =>
      /\ Len(emb.calls) <= CeilDiv(Len(emb.chunks), 100)
      /\ BatchesInOrder
      /\ \A b \in DOMAIN emb.calls : emb.svc[b] = "fail" <=> (b = Len(emb.calls) /\ emb.ret = None)
      /\ emb.ret # None => Len(emb.calls) = CeilDiv(Len(emb.chunks), 100)
      /\ emb.chunks = <<>> => (emb.calls = <<>> /\ emb.ret = List(<<>>))

\* C16 witness: 201 inputs went out in three calls of 100, 100 and 1 items.
C16_Witness ==
    /\ emb.called
    /\ Len(emb.chunks) = 201
    /\ Len(emb.calls) = 3
    /\ Len(emb.calls[1]) = 100
    /\ Len(emb.calls[3]) = 1
    /\ emb.calls[3][1] = emb.chunks[201]
    /\ emb.ret # None

\* retrieval has returned to answer_query
Retrieved == qry.fetched /\ ~qry.fetch_raised

\* C17: the generative model is never invoked before retrieval has returned,
\* and never twice.  Once answer_query is over: if retrieval returned no
\* chunk, the model was not invoked and the answer is the "no relevant
\* context" sentinel; if it returned chunks, the model was invoked once, with
\* the (content, doc_name) pairs of the retrieved chunks, at most 7, and the
\* question, and the text it gave is the answer.
C17_GenerateOnceAfterRetrieval ==
    /\ qry.generate_calls # <<>> => Retrieved
    /\ Len(qry.generate_calls) <= 1
    /\ (qry.pc = "done" /\ Retrieved /\ qry.similar_docs = <<>>) =>
         (qry.generate_calls = <<>> /\ qry.answer = NO_CONTEXT)
    /\ (qry.pc = "done" /\ Retrieved /\ qry.similar_docs # <<>>) =>
         /\ Len(qry.generate_calls) = 1
         /\ qry.generate_calls[1].query = qry.query
         /\ Len(qry.generate_calls[1].context) = Len(qry.similar_docs)
         /\ Len(qry.generate_calls[1].context) <= 7
         /\ \A i \in DOMAIN qry.similar_docs :
              /\ qry.generate_calls[1].context[i].content = qry.similar_docs[i].content
              /\ qry.generate_calls[1].context[i].doc_name = qry.similar_docs[i].doc_name
         /\ qry.gen # "fail" => qry.answer = qry.gen

\* C17 witness: over a store of more than 7 matching chunks a query got 7 of
\* them, the model was invoked once with these 7 and its text was returned.
C17_Witness ==
    /\ qry.pc = "done"
    /\ Len(store) > 7
    /\ Len(qry.similar_docs) = 7
    /\ Len(qry.generate_calls) = 1
    /\ Len(qry.generate_calls[1].context) = 7
    /\ qry.gen = "The exam is on Monday."
    /\ qry.answer = qry.gen

\* C18: the context_used of a /query/ response is the number of retrieved
\* chunks that were handed to the generative model for the answer in that
\* response, whatever the request's top_k.
C18_ContextUsedIsHanded ==
    (qry.pc = "respond" /\ qry.status = 200) => qry.context_used = qry.handed

\* C19: a query made in the UI with branch filter B and year filter Y, neither
\* of them "all", is answered only from chunks whose branch is B or "all" and
\* whose year is Y or "all": no other chunk is handed to the generative model.
C19_UiFiltersApplied ==
    (/\ qry.site = "get_answer"
     /\ qry.generate_calls # <<>>
     /\ qry.query_branch # "all"
     /\ qry.query_year # "all")
        => \A i \in DOMAIN qry.similar_docs :
             /\ qry.similar_docs[i].branch \in {qry.query_branch, "all"}
             /\ qry.similar_docs[i].year \in {qry.query_year, "all"}

====
